---- MODULE Spec2Model ----
(***************************************************************************)
(* honmoku_stats: the ingestion batch (src/fetcher.py) that fetches daily  *)
(* fishing reports, archives them and upserts them into two DynamoDB       *)
(* tables, and the read API (src/app.py) that serves a time series of      *)
(* catches from the catch table.                                           *)
(*                                                                         *)
(* Python strings that take part in keys or comparisons are sequences of   *)
(* one-character strings; Python values of dynamic type are tagged records *)
(* (None, str, int, list).                                                 *)
(***************************************************************************)
EXTENDS Integers, Sequences, FiniteSets, TLC

(***************************************************************************)
(* Bounds of the model.                                                    *)
(***************************************************************************)
\* dates are 2024-01-01 .. 2024-01-<MaxDay>
MaxDay == 3
\* fish slots scanned per post (the code scans 30)
MaxSlot == 3
\* scheduled single-date invocations of the batch handler on the same tables,
\* and the days they are for
MaxRuns == 3
MaxReDay == 2
\* records in the catch table when a series request arrives
MaxItems == 2
\* pages the store may return without any record
MaxEmptyPages == 1

(***************************************************************************)
(* State.                                                                  *)
(***************************************************************************)
VARIABLES
    \* fetcher.lambda_handler
    pc,             \* "idle", "fetch", "archive", "put_daily", "put_catches",
                    \* "notify", "except", "done"
    runs,           \* invocations started so far
    date_range,     \* None or [start, end]
    target_dates,
    idx,            \* position of the loop "for target_date in target_dates"
    unit,           \* locals of process_single_date for target_dates[idx]
    results,
    errors,
    exc,            \* the exception caught by the outer "except Exception"
    outcome,        \* what the invocation gave its caller
    \* collaborators
    s3,             \* keys of the objects of S3_BUCKET
    daily_table,    \* items of DDB_DAILY_TABLE
    catch_table,    \* items of DDB_CATCH_TABLE
    calls,          \* calls made to the collaborators by the current invocation
    ingested,       \* per date, the upstream response of its last complete ingestion
    \* app.handle_series
    spc,            \* "idle", "query", "done"
    qs,             \* the query string parameters of the request
    key_cond,       \* the KeyConditionExpression
    items,
    last_evaluated_key,
    arrived,        \* the records table.query has returned, in their order
    empty_pages,    \* how many pages had a token and no record
    pages,          \* how many times the loop has called table.query
    response,
    \* a call of one of the pure functions
    fn,             \* the function called
    args,           \* its arguments
    ret             \* what the call gave: a value or an exception

fetcherVars ==
    << pc, runs, date_range, target_dates, idx, unit, results, errors, exc, outcome,
       s3, daily_table, calls, ingested >>

seriesVars ==
    << spc, qs, key_cond, items, last_evaluated_key, arrived, empty_pages, pages,
       response >>

callVars ==
    << fn, args, ret >>

vars ==
    << fetcherVars, catch_table, seriesVars, callVars >>

(***************************************************************************)
(* Python values and strings.                                              *)
(***************************************************************************)
None ==
    [t |-> "None"]

PyStr(s) ==
    [t |-> "str", v |-> s]

PyInt(n) ==
    [t |-> "int", v |-> n]

\* a list of strings
\* a float: kind "num" with the value tenths / 10, or "inf", or "nan"
PyFloat(kind, tenths) ==
    [t |-> "float", v |-> [kind |-> kind, tenths |-> tenths]]

PyList(l) ==
    [t |-> "list", v |-> l]

\* the characters used by the model, in code point order
Ascii ==
    << "\n", " ", "#", "-", ".", "0", "1", "2", "3", "4", "5", "6", "7", "8", "9",
       "A", "B", "C", "D", "E", "F", "G", "H", "I", "J", "K", "L", "M", "N",
       "O", "P", "Q", "R", "S", "T", "U", "V", "W", "X", "Y", "Z",
       "a", "b", "c", "d", "e", "f", "g", "h", "i", "j", "k", "l", "m", "n",
       "o", "p", "q", "r", "s", "t", "u", "v", "w", "x", "y", "z" >>

Ord(c) ==
    CHOOSE i \in 1..Len(Ascii) : Ascii[i] = c

\* a < b for Python str / DynamoDB string sort keys (code point order)
RECURSIVE StrLess(_, _)
StrLess(a, b) ==
    IF b = <<>> THEN FALSE
    ELSE IF a = <<>> THEN TRUE
    ELSE IF Head(a) = Head(b) THEN StrLess(Tail(a), Tail(b))
    ELSE Ord(Head(a)) < Ord(Head(b))

StrLeq(a, b) ==
    a = b \/ StrLess(a, b)

Digit(n) ==
    Ascii[6 + n]

\* f"{n:02d}"
TwoDigits(n) ==
    IF n < 100 THEN << Digit(n \div 10), Digit(n % 10) >>
    ELSE << Digit(n \div 100), Digit((n \div 10) % 10), Digit(n % 10) >>

\* str.strip() for the whitespace of the model's alphabet
IsSpace(c) ==
    c \in {" ", "\n"}

RECURSIVE LStrip(_)
LStrip(s) ==
    IF s # <<>> /\ IsSpace(Head(s)) THEN LStrip(Tail(s)) ELSE s

RECURSIVE RStrip(_)
RStrip(s) ==
    IF s # <<>> /\ IsSpace(s[Len(s)]) THEN RStrip(SubSeq(s, 1, Len(s) - 1)) ELSE s

Strip(s) ==
    RStrip(LStrip(s))

\* s.replace("\n", " ")
ReplaceNewline(s) ==
    [i \in 1..Len(s) |-> IF s[i] = "\n" THEN " " ELSE s[i]]

\* s.split("#")
RECURSIVE Split(_)
Split(s) ==
    IF \A i \in 1..Len(s) : s[i] # "#" THEN << s >>
    ELSE LET k == CHOOSE i \in 1..Len(s) : s[i] = "#" /\ \A j \in 1..(i - 1) : s[j] # "#"
         IN  << SubSeq(s, 1, k - 1) >> \o Split(SubSeq(s, k + 1, Len(s)))

(***************************************************************************)
(* utils/dates.py: a date is its day of January 2024.                      *)
(***************************************************************************)
Dates ==
    1..MaxDay

ymd_dash(d) ==
    << "2", "0", "2", "4", "-", "0", "1", "-" >> \o TwoDigits(d)

\* datetime.strptime(s, "%Y-%m-%d").date(): the day, or 0 for ValueError
strptime(s) ==
    IF \E d \in 1..31 : ymd_dash(d) = s
    THEN CHOOSE d \in 1..31 : ymd_dash(d) = s
    ELSE 0

(***************************************************************************)
(* utils/ddb_keys.py                                                       *)
(***************************************************************************)
make_daily_pk(facility) ==
    << "F", "A", "C", "I", "L", "I", "T", "Y", "#" >> \o facility

make_daily_sk(date) ==
    << "D", "A", "T", "E", "#" >> \o date

make_catch_pk(facility, fish) ==
    << "F", "A", "C", "I", "L", "I", "T", "Y", "#" >> \o facility
        \o << "#", "F", "I", "S", "H", "#" >> \o fish

\* " ".join(str(p) for p in place if p)
RECURSIVE JoinTruthy(_)
JoinTruthy(l) ==
    IF l = <<>> THEN <<>>
    ELSE LET rest == JoinTruthy(Tail(l))
         IN  IF Head(l) = <<>> THEN rest
             ELSE IF \A i \in 1..Len(Tail(l)) : Tail(l)[i] = <<>> THEN Head(l)
             ELSE Head(l) \o << " " >> \o rest

\* as make_catch_sk, but the key also carries the number of the invocation
make_catch_sk_PerRun(date, slot, place) ==
    << "D", "A", "T", "E", "#" >> \o date
        \o << "#", "S", "L", "O", "T", "#" >> \o TwoDigits(slot)
        \o << "#", "R", "U", "N", "#" >> \o TwoDigits(runs)

\* place is None, a str or a list of str; "place or 'UNKNOWN'" takes the
\* sentinel for None, "" and a list that joins to nothing
make_catch_sk(date, slot, place) ==
    LET joined == IF place.t = "list"
                  THEN (IF place.v = <<>> THEN None ELSE PyStr(JoinTruthy(place.v)))
                  ELSE place
        p == IF joined = None \/ joined.v = <<>>
             THEN << "U", "N", "K", "N", "O", "W", "N" >>
             ELSE joined.v
        place_clean == Strip(ReplaceNewline(p))
    IN  << "D", "A", "T", "E", "#" >> \o date
            \o << "#", "S", "L", "O", "T", "#" >> \o TwoDigits(slot)
            \o << "#", "P", "L", "A", "C", "E", "#" >> \o place_clean

(***************************************************************************)
(* utils/numbers.py                                                        *)
(***************************************************************************)
IsDigit(c) ==
    c \in {"0", "1", "2", "3", "4", "5", "6", "7", "8", "9"}

RECURSIVE DigitsValue(_)
DigitsValue(s) ==
    IF s = <<>> THEN 0
    ELSE 10 * DigitsValue(SubSeq(s, 1, Len(s) - 1)) + (Ord(s[Len(s)]) - Ord("0"))

\* float(s) for s already stripped, on the literals [-]digits[.digits],
\* [-]inf and nan: kind "num" with the value truncated toward zero,
\* "inf", "nan", or "bad" for ValueError
ParseFloat(s) ==
    LET neg == s # <<>> /\ Head(s) = "-"
        body == IF neg THEN Tail(s) ELSE s
        dots == {i \in 1..Len(body) : body[i] = "."}
        dot == IF dots = {} THEN Len(body) + 1 ELSE CHOOSE i \in dots : \A j \in dots : i <= j
        whole == SubSeq(body, 1, dot - 1)
        frac == SubSeq(body, dot + 1, Len(body))
    IN  IF body \in { <<"i", "n", "f">>, <<"i", "n", "f", "i", "n", "i", "t", "y">> }
            THEN [kind |-> "inf", trunc |-> 0]
        ELSE IF body = <<"n", "a", "n">> THEN [kind |-> "nan", trunc |-> 0]
        ELSE IF /\ Cardinality(dots) <= 1
                /\ Len(whole) + Len(frac) > 0
                /\ \A i \in 1..Len(whole) : IsDigit(whole[i])
                /\ \A i \in 1..Len(frac) : IsDigit(frac[i])
            THEN [kind |-> "num",
                  trunc |-> IF neg THEN 0 - DigitsValue(whole) ELSE DigitsValue(whole)]
        ELSE [kind |-> "bad", trunc |-> 0]

Raise(type) ==
    [t |-> "raise", v |-> type]

\* int(x) for a float x = tenths / 10: truncation toward zero
Trunc(tenths) ==
    IF tenths >= 0 THEN tenths \div 10 ELSE 0 - ((0 - tenths) \div 10)

\* the value returned, or Raise(..) for an exception that leaves safe_int:
\* int(v) of a float is outside the try, int(float(s)) of a str is inside
\* it, and the try catches ValueError only
safe_int(v) ==
    IF v.t = "None" THEN None
    ELSE IF v.t = "int" THEN v
    ELSE IF v.t = "float" THEN
        (IF v.v.kind = "num" THEN PyInt(Trunc(v.v.tenths))
         ELSE IF v.v.kind = "inf" THEN Raise("OverflowError")
         ELSE Raise("ValueError"))
    ELSE IF v.t = "str" THEN
        LET s == Strip(v.v)
            f == ParseFloat(s)
        IN  IF s = <<>> THEN None
            ELSE IF f.kind = "num" THEN PyInt(f.trunc)
            ELSE IF f.kind = "inf" THEN Raise("OverflowError")
            ELSE None
    ELSE None

(***************************************************************************)
(* fetcher.py: the normalizer.                                             *)
(* A post is [id, updatedAt, weather, waterTemp, tide, visitors, sentence, *)
(* fish], fish[i] holding fish<i>Name, ...Count, ...MinSize, ...MaxSize,   *)
(* ...Unit, ...Place; an absent key is None, as item.get gives.            *)
(***************************************************************************)
\* bool(v)
Truthy(v) ==
    CASE v.t = "None" -> FALSE
      [] v.t \in {"str", "list"} -> v.v # <<>>
      [] v.t = "int" -> v.v # 0
      [] OTHER -> TRUE

Error(type, msg, missing) ==
    [type |-> type, msg |-> msg, missing |-> missing]

Ok(val) ==
    [ok |-> TRUE, val |-> val]

Fail(err) ==
    [ok |-> FALSE, err |-> err]

Reverse(s) ==
    [i \in 1..Len(s) |-> s[Len(s) + 1 - i]]

\* as StableSort, but the order is left as it is
StableSort_Unsorted(s) ==
    s

\* list.sort / sorted on (key, value) pairs: ascending by key, equal keys
\* keep their order
RECURSIVE StableSort(_)
StableSort(s) ==
    IF s = <<>> THEN <<>>
    ELSE LET front == StableSort(SubSeq(s, 1, Len(s) - 1))
             x == s[Len(s)]
             after == {i \in 1..Len(front) : StrLess(x.key, front[i].key)}
             pos == IF after = {} THEN Len(front) + 1
                    ELSE CHOOSE i \in after : \A j \in after : i <= j
         IN  SubSeq(front, 1, pos - 1) \o << x >> \o SubSeq(front, pos, Len(front))

\* sorted(.., reverse=True): descending by key, equal keys keep their order
StableSortReverse(s) ==
    Reverse(StableSort(Reverse(s)))

\* x.get("updatedAt") or ""
UpdatedAtKey(x) ==
    IF Truthy(x.updatedAt) THEN x.updatedAt.v ELSE <<>>

\* as pick_latest, but the first candidate is taken
pick_latest_First(posts) ==
    IF posts = <<>> THEN Fail(Error("RuntimeError", "No items returned", <<>>))
    ELSE Ok(posts[1])

pick_latest(posts) ==
    IF posts = <<>> THEN Fail(Error("RuntimeError", "No items returned", <<>>))
    ELSE Ok(StableSortReverse([i \in 1..Len(posts) |->
                [key |-> UpdatedAtKey(posts[i]), val |-> posts[i]]])[1].val)

required ==
    << "weather", "waterTemp", "tide", "visitors" >>

\* as IsMissing, but only None counts
IsMissing_NoneOnly(v) ==
    v.t = "None"

\* v in (None, "", [])
IsMissing(v) ==
    v.t = "None" \/ (v.t \in {"str", "list"} /\ v.v = <<>>)

normalize_catch_count(item, facility, date_dash) ==
    LET missing == SelectSeq(required, LAMBDA k : IsMissing(item[k]))
        visitors == safe_int(item.visitors)
    IN  IF missing # <<>>
            THEN Fail(Error("ValueError", "Missing required fields in catch count", missing))
        ELSE IF visitors.t = "raise" THEN Fail(Error(visitors.v, "safe_int", <<>>))
        ELSE Ok([facility |-> facility,
                 date |-> date_dash,
                 weather |-> item.weather,
                 waterTemp |-> item.waterTemp,
                 tide |-> item.tide,
                 visitors |-> visitors,
                 sentence |-> item.sentence,
                 sourceId |-> item.id,
                 updatedAt |-> item.updatedAt])

\* the record appended for slot i
FishRecord(item, facility, date_dash, i) ==
    [facility |-> facility,
     date |-> date_dash,
     fish |-> item.fish[i].Name,
     count |-> safe_int(item.fish[i].Count),
     minSize |-> safe_int(item.fish[i].MinSize),
     maxSize |-> safe_int(item.fish[i].MaxSize),
     unit |-> item.fish[i].Unit,
     place |-> item.fish[i].Place,
     slot |-> i]

\* the slots of the loop "for i in range(1, 31)" that pass "if not name"
NamedSlots(item) ==
    SelectSeq([i \in 1..MaxSlot |-> i], LAMBDA i : Truthy(item.fish[i].Name))

normalize_fishes(item, facility, date_dash) ==
    LET slots == NamedSlots(item)
        fishes == [k \in 1..Len(slots) |-> FishRecord(item, facility, date_dash, slots[k])]
        raising == {k \in 1..Len(fishes) :
                        \/ fishes[k].count.t = "raise"
                        \/ fishes[k].minSize.t = "raise"
                        \/ fishes[k].maxSize.t = "raise"}
    IN  IF raising # {} THEN Fail(Error("OverflowError", "safe_int", <<>>))
        ELSE Ok(fishes)

(***************************************************************************)
(* fetcher.py: the writes. A table is the set of its items, at most one    *)
(* per (PK, SK).                                                           *)
(***************************************************************************)
\* table.put_item(Item=item): overwrite by key
PutItem(table, item) ==
    {it \in table : ~(it.PK = item.PK /\ it.SK = item.SK)} \cup {item}

\* key = f"raw/{facility}/{date_dash}/{kind}.json"
RawKey(facility, kind, date_dash) ==
    [facility |-> facility, date |-> date_dash, kind |-> kind]

DailyItem(daily_item, raw_keys, fishing_report_log) ==
    [PK |-> make_daily_pk(daily_item.facility),
     SK |-> make_daily_sk(daily_item.date),
     daily |-> daily_item,
     rawKeys |-> raw_keys,
     fishingReportLog |-> fishing_report_log]

CatchItem(c) ==
    [PK |-> make_catch_pk(c.facility, c.fish.v),
     SK |-> make_catch_sk(c.date, c.slot, c.place),
     c |-> c]

\* as PutCatchItems, but the records of the dates of catches are deleted first
PutCatchItems_Replaces(table, catches, written) ==
    {it \in table : \A i \in 1..Len(catches) : it.c.date # catches[i].date}
        \cup {CatchItem(catches[i]) : i \in written}

\* the table after the batch writer has put the items of catches at the
\* indices in written
RECURSIVE PutCatchItems(_, _, _)
PutCatchItems(table, catches, written) ==
    IF catches = <<>> THEN table
    ELSE LET n == Len(catches)
             before == PutCatchItems(table, SubSeq(catches, 1, n - 1), written)
         IN  IF n \in written THEN PutItem(before, CatchItem(catches[n])) ELSE before

(***************************************************************************)
(* Inputs of the ingestion.                                                *)
(***************************************************************************)
FACILITY_DEFAULT ==
    << "h", "o", "n", "m", "o", "k", "u" >>

T1 ==
    PyStr(<< "0", "1", "T" >>)

T2 ==
    PyStr(<< "0", "2", "T" >>)

Aji ==
    PyStr(<< "a", "j", "i" >>)

Iwashi ==
    PyStr(<< "i", "w", "a", "s", "h", "i" >>)

PlaceA ==
    PyStr(<< "A" >>)

EmptySlot ==
    [Name |-> None, Count |-> None, MinSize |-> None, MaxSize |-> None,
     Unit |-> None, Place |-> None]

FishSlot(name, count, place) ==
    [Name |-> name, Count |-> count, MinSize |-> PyInt(10), MaxSize |-> None,
     Unit |-> PyStr(<< "c", "m" >>), Place |-> place]

Post(id, updatedAt, tide, visitors, fish) ==
    [id |-> id, updatedAt |-> updatedAt, weather |-> PyStr(<< "s", "u", "n" >>),
     waterTemp |-> PyStr(<< "1", "5" >>), tide |-> tide, visitors |-> visitors,
     sentence |-> None, fish |-> fish]

\* a post with aji in slot 1
PostA ==
    Post(1, T1, PyStr(<< "h", "i" >>), PyStr(<< "1", "2" >>),
         [i \in 1..MaxSlot |-> IF i = 1 THEN FishSlot(Aji, PyStr(<< "3" >>), PlaceA)
                               ELSE EmptySlot])

\* its revision: aji moved to the last slot, no place, iwashi in slot 1
PostB ==
    Post(2, T2, PyStr(<< "h", "i" >>), PyInt(0),
         [i \in 1..MaxSlot |-> IF i = MaxSlot THEN FishSlot(Aji, PyInt(4), None)
                               ELSE IF i = 1 THEN FishSlot(Iwashi, None, PlaceA)
                               ELSE EmptySlot])

\* a post without tide and visitors, with a populated slot
PostC ==
    Post(3, None, PyStr(<<>>), None,
         [i \in 1..MaxSlot |-> IF i = 1 THEN FishSlot(Aji, PyInt(1), PlaceA)
                               ELSE EmptySlot])

\* another post with the updatedAt of PostA
PostD ==
    Post(4, T1, PyStr(<< "h", "i" >>), PyStr(<< "7" >>),
         [i \in 1..MaxSlot |-> IF i = 1 THEN FishSlot(Aji, PyStr(<< "3" >>), PlaceA)
                               ELSE EmptySlot])

\* the candidate lists the upstream may return for a date
Responses ==
    { <<>>, << PostA >>, << PostB >>, << PostC >>, << PostA, PostB >>, << PostC, PostA >>,
      << PostD, PostA >> }

\* values of START_DATE, END_DATE and TARGET_DATE: unset, empty, a date, garbage
EnvValues ==
    { None, PyStr(<<>>), PyStr(<< "x" >>) } \cup { PyStr(ymd_dash(d)) : d \in Dates }

(***************************************************************************)
(* fetcher.py: date configuration.                                         *)
(***************************************************************************)
ConfigError(msg) ==
    Error("ValueError", msg, <<>>)

get_date_range(env) ==
    LET start_set == Truthy(env.START_DATE)
        end_set == Truthy(env.END_DATE)
        start_date == strptime(env.START_DATE.v)
        end_date == strptime(env.END_DATE.v)
    IN  IF ~start_set /\ ~end_set THEN Ok(None)
        ELSE IF ~start_set \/ ~end_set
            THEN Fail(ConfigError("Both START_DATE and END_DATE must be set together"))
        ELSE IF start_date = 0 \/ end_date = 0
            THEN Fail(ConfigError("Invalid date format"))
        ELSE IF start_date > end_date
            THEN Fail(ConfigError("START_DATE must be before or equal to END_DATE"))
        ELSE Ok([start |-> start_date, end |-> end_date])

get_target_date(env, yesterday_jst) ==
    IF Truthy(env.TARGET_DATE)
    THEN (IF strptime(env.TARGET_DATE.v) = 0
          THEN Fail(ConfigError("Invalid TARGET_DATE format"))
          ELSE Ok(strptime(env.TARGET_DATE.v)))
    ELSE Ok(yesterday_jst)

RECURSIVE generate_date_list(_, _)
generate_date_list(start_date, end_date) ==
    IF start_date <= end_date
    THEN << start_date >> \o generate_date_list(start_date + 1, end_date)
    ELSE <<>>

\* the first statements of lambda_handler's try block: the dates to process
TargetDates(env, yesterday_jst) ==
    LET r == get_date_range(env)
        t == get_target_date(env, yesterday_jst)
    IN  IF ~r.ok THEN r
        ELSE IF r.val # None THEN Ok(generate_date_list(r.val.start, r.val.end))
        ELSE IF ~t.ok THEN t
        ELSE Ok(<< t.val >>)

(***************************************************************************)
(* fetcher.py: lambda_handler and process_single_date, one action per call *)
(* of a collaborator, with the computation that follows it.                *)
(***************************************************************************)
NoUnit ==
    [raw |-> <<>>, item |-> None, raw_keys |-> {}, daily |-> None, catches |-> <<>>]

NoOutcome ==
    [kind |-> "none"]

NoError ==
    Error("", "", <<>>)

Call(op, date, ok) ==
    [op |-> op, date |-> date, ok |-> ok]

FetcherInit ==
    /\ pc = "idle"
    /\ runs = 0
    /\ date_range = None
    /\ target_dates = <<>>
    /\ idx = 1
    /\ unit = NoUnit
    /\ results = <<>>
    /\ errors = <<>>
    /\ exc = NoError
    /\ outcome = NoOutcome
    /\ calls = <<>>
    /\ ingested = [d \in Dates |-> None]

NoRequest ==
    [facility |-> None, fish |-> None, from |-> None, to |-> None]

SeriesIdle ==
    /\ spc = "idle"
    /\ qs = NoRequest
    /\ key_cond = None
    /\ items = <<>>
    /\ last_evaluated_key = None
    /\ arrived = <<>>
    /\ empty_pages = 0
    /\ pages = 0
    /\ response = None

\* no pure function is under call
NoCall ==
    /\ fn = "none"
    /\ args = <<>>
    /\ ret = None

\* the batch starts on empty tables
Init ==
    /\ FetcherInit
    /\ SeriesIdle
    /\ NoCall
    /\ s3 = {}
    /\ daily_table = {}
    /\ catch_table = {}

\* an invocation starts: lines 606-623, with the environment and the clock
\* drawn from the given sets
SetupWith(starts, ends, targets, yesterdays) ==
    /\ \E start \in starts, end \in ends, target \in targets, yesterday_jst \in yesterdays :
        LET env == [START_DATE |-> start, END_DATE |-> end, TARGET_DATE |-> target]
            r == get_date_range(env)
            dates == TargetDates(env, yesterday_jst)
        IN  /\ date_range' = IF r.ok THEN r.val ELSE None
            /\ target_dates' = IF dates.ok THEN dates.val ELSE <<>>
            /\ exc' = IF dates.ok THEN NoError ELSE dates.err
            /\ pc' = IF ~dates.ok THEN "except"
                     ELSE IF dates.val = <<>> THEN "notify"
                     ELSE "fetch"
    /\ runs' = runs + 1
    /\ idx' = 1
    /\ unit' = NoUnit
    /\ results' = <<>>
    /\ errors' = <<>>
    /\ outcome' = NoOutcome
    /\ calls' = <<>>
    /\ UNCHANGED << s3, daily_table, catch_table, ingested >>
    /\ UNCHANGED << seriesVars, callVars >>

\* one invocation, with any date configuration
Setup ==
    /\ pc = "idle"
    /\ SetupWith(EnvValues, EnvValues, EnvValues, Dates)

\* the scheduled invocation: no date configuration, yesterday is processed
ScheduledSetup ==
    /\ pc \in {"idle", "done"}
    /\ runs < MaxRuns
    /\ SetupWith({None}, {None}, {None}, 1..MaxReDay)

target_date ==
    target_dates[idx]

\* the loop goes on to the next date, or to the notification after the last
NextDate ==
    /\ idx' = idx + 1
    /\ pc' = IF idx + 1 > Len(target_dates) THEN "notify" ELSE "fetch"

\* as DateFailed, but the failure ends the loop
DateFailed_Stops(err) ==
    /\ errors' = Append(errors, [date |-> ymd_dash(target_date), error |-> err])
    /\ idx' = idx
    /\ pc' = "notify"
    /\ unit' = NoUnit
    /\ UNCHANGED results

\* lines 630-636: the per-date except clause
DateFailed(err) ==
    /\ errors' = Append(errors, [date |-> ymd_dash(target_date), error |-> err])
    /\ NextDate
    /\ unit' = NoUnit
    /\ UNCHANGED results

\* as FetchCatchCount, but the raw response is archived before pick_latest
FetchCatchCount_ArchivesFirst ==
    /\ pc = "fetch"
    /\ \E ok \in BOOLEAN, raw \in Responses :
        LET picked == pick_latest(raw)
            key == RawKey(FACILITY_DEFAULT, "catch_count", ymd_dash(target_date))
        IN  IF ~ok
            THEN /\ calls' = Append(calls, Call("fetch", target_date, ok))
                 /\ DateFailed(Error("RuntimeError", "AppSync request failed after retries", <<>>))
                 /\ UNCHANGED s3
            ELSE /\ calls' = calls \o << Call("fetch", target_date, TRUE),
                                         Call("put_object", target_date, TRUE) >>
                 /\ s3' = s3 \cup {key}
                 /\ IF ~picked.ok
                    THEN DateFailed(picked.err)
                    ELSE /\ unit' = [NoUnit EXCEPT !.raw = raw, !.item = picked.val]
                         /\ pc' = "archive"
                         /\ UNCHANGED << idx, results, errors >>
    /\ UNCHANGED << runs, date_range, target_dates, exc, outcome,
                    daily_table, catch_table, ingested >>
    /\ UNCHANGED << seriesVars, callVars >>

\* line 534-535: fetch_kind("catch_count", ..) and pick_latest
FetchCatchCount ==
    /\ pc = "fetch"
    /\ \E ok \in BOOLEAN, raw \in Responses :
        LET picked == pick_latest(raw)
        IN  /\ calls' = Append(calls, Call("fetch", target_date, ok))
            /\ IF ~ok
               THEN DateFailed(Error("RuntimeError", "AppSync request failed after retries", <<>>))
               ELSE IF ~picked.ok
               THEN DateFailed(picked.err)
               ELSE /\ unit' = [NoUnit EXCEPT !.raw = raw, !.item = picked.val]
                    /\ pc' = "archive"
                    /\ UNCHANGED << idx, results, errors >>
    /\ UNCHANGED << runs, date_range, target_dates, exc, outcome,
                    s3, daily_table, catch_table, ingested >>
    /\ UNCHANGED << seriesVars, callVars >>

\* lines 536-540: put_raw_to_s3, then normalize_catch_count and normalize_fishes
PutRawToS3 ==
    /\ pc = "archive"
    /\ \E ok \in BOOLEAN :
        LET date_dash == ymd_dash(target_date)
            key == RawKey(FACILITY_DEFAULT, "catch_count", date_dash)
            daily == normalize_catch_count(unit.item, FACILITY_DEFAULT, date_dash)
            catches == normalize_fishes(unit.item, FACILITY_DEFAULT, date_dash)
            archived == [unit EXCEPT !.raw_keys = {[kind |-> "catch_count", key |-> key]}]
        IN  /\ calls' = Append(calls, Call("put_object", target_date, ok))
            /\ IF ~ok
               THEN /\ DateFailed(Error("ClientError", "s3.put_object", <<>>))
                    /\ UNCHANGED s3
               ELSE /\ s3' = s3 \cup {key}
                    /\ IF ~daily.ok
                       THEN DateFailed(daily.err)
                       ELSE IF ~catches.ok
                       THEN DateFailed(catches.err)
                       ELSE /\ unit' = [archived EXCEPT !.daily = daily.val,
                                                        !.catches = catches.val]
                            /\ pc' = "put_daily"
                            /\ UNCHANGED << idx, results, errors >>
    /\ UNCHANGED << runs, date_range, target_dates, exc, outcome,
                    daily_table, catch_table, ingested >>
    /\ UNCHANGED << seriesVars, callVars >>

\* as PutDdbDaily, but the summary is not stored
PutDdbDaily_NoWrite ==
    /\ pc = "put_daily"
    /\ \E ok \in BOOLEAN :
        /\ calls' = Append(calls, Call("put_item", target_date, ok))
        /\ IF ok
           THEN /\ daily_table' = daily_table
                /\ pc' = "put_catches"
                /\ UNCHANGED << idx, unit, results, errors, ingested >>
           ELSE /\ DateFailed(Error("ClientError", "dynamodb.put_item", <<>>))
                /\ ingested' = [ingested EXCEPT ![target_date] = None]
                /\ UNCHANGED daily_table
    /\ UNCHANGED << runs, date_range, target_dates, exc, outcome, s3, catch_table >>
    /\ UNCHANGED << seriesVars, callVars >>

\* line 574: put_ddb_daily
PutDdbDaily ==
    /\ pc = "put_daily"
    /\ \E ok \in BOOLEAN :
        /\ calls' = Append(calls, Call("put_item", target_date, ok))
        /\ IF ok
           THEN /\ daily_table' = PutItem(daily_table, DailyItem(unit.daily, unit.raw_keys, <<>>))
                /\ pc' = "put_catches"
                /\ UNCHANGED << idx, unit, results, errors, ingested >>
           ELSE /\ DateFailed(Error("ClientError", "dynamodb.put_item", <<>>))
                /\ ingested' = [ingested EXCEPT ![target_date] = None]
                /\ UNCHANGED daily_table
    /\ UNCHANGED << runs, date_range, target_dates, exc, outcome, s3, catch_table >>
    /\ UNCHANGED << seriesVars, callVars >>

\* lines 575-577 and 629: put_ddb_catches; a failing batch has written any
\* part of the items
PutDdbCatches ==
    /\ pc = "put_catches"
    /\ \E written \in SUBSET (1..Len(unit.catches)), ok \in BOOLEAN :
        /\ ok => written = 1..Len(unit.catches)
        /\ ~ok => unit.catches # <<>>
        /\ calls' = Append(calls, Call("batch_put", target_date, ok))
        /\ catch_table' = PutCatchItems(catch_table, unit.catches, written)
        /\ IF ok
           THEN /\ results' = Append(results, [status |-> "ok",
                                               date |-> ymd_dash(target_date),
                                               catches |-> Len(unit.catches),
                                               raw |-> unit.raw_keys])
                /\ ingested' = [ingested EXCEPT ![target_date] = PyList(unit.raw)]
                /\ NextDate
                /\ unit' = NoUnit
                /\ UNCHANGED errors
           ELSE /\ DateFailed(Error("ClientError", "dynamodb.batch_write_item", <<>>))
                /\ ingested' = [ingested EXCEPT ![target_date] = None]
    /\ UNCHANGED << runs, date_range, target_dates, exc, outcome, s3, daily_table >>
    /\ UNCHANGED << seriesVars, callVars >>

RECURSIVE Sum(_)
Sum(s) ==
    IF s = <<>> THEN 0 ELSE Head(s) + Sum(Tail(s))

\* as Result, but the status ignores the errors
Result_AlwaysOk ==
    [status |-> "ok",
     processed_dates |-> [i \in 1..Len(results) |-> results[i].date],
     total_dates |-> Len(target_dates),
     total_catches |-> Sum([i \in 1..Len(results) |-> results[i].catches]),
     results |-> results,
     errors |-> IF errors # <<>> THEN PyList(errors) ELSE None]

\* lines 671-678
Result ==
    LET processed_dates == [i \in 1..Len(results) |-> results[i].date]
        total_catches == Sum([i \in 1..Len(results) |-> results[i].catches])
    IN  [status |-> IF errors = <<>> THEN "ok" ELSE "partial",
         processed_dates |-> processed_dates,
         total_dates |-> Len(target_dates),
         total_catches |-> total_catches,
         results |-> results,
         errors |-> IF errors # <<>> THEN PyList(errors) ELSE None]

MailCall(subject, ok) ==
    [op |-> "send_email", date |-> 0, ok |-> ok, subject |-> subject]

SesError ==
    Error("ClientError", "ses.send_email", <<>>)

\* lines 638-678: the summary mail and the return
Notify ==
    /\ pc = "notify"
    /\ \E ok \in BOOLEAN :
        /\ calls' = Append(calls, MailCall(IF errors # <<>> THEN "[WARN]" ELSE "[OK]", ok))
        /\ IF ok
           THEN /\ outcome' = [kind |-> "return", value |-> Result]
                /\ pc' = "done"
                /\ UNCHANGED exc
           ELSE /\ exc' = SesError
                /\ pc' = "except"
                /\ UNCHANGED outcome
    /\ UNCHANGED << runs, date_range, target_dates, idx, unit, results, errors,
                    s3, daily_table, catch_table, ingested >>
    /\ UNCHANGED << seriesVars, callVars >>

\* as Except, but the exception is swallowed after the mail
Except_Swallows ==
    /\ pc = "except"
    /\ \E ok \in BOOLEAN :
        /\ calls' = Append(calls, MailCall("[NG]", ok))
        /\ outcome' = [kind |-> "return", value |-> Result]
    /\ pc' = "done"
    /\ UNCHANGED << runs, date_range, target_dates, idx, unit, results, errors, exc,
                    s3, daily_table, catch_table, ingested >>
    /\ UNCHANGED << seriesVars, callVars >>

\* lines 680-686: the failure mail and the re-raise; an exception of
\* send_mail replaces the one being handled
Except ==
    /\ pc = "except"
    /\ \E ok \in BOOLEAN :
        /\ calls' = Append(calls, MailCall("[NG]", ok))
        /\ outcome' = [kind |-> "raise", err |-> IF ok THEN exc ELSE SesError]
    /\ pc' = "done"
    /\ UNCHANGED << runs, date_range, target_dates, idx, unit, results, errors, exc,
                    s3, daily_table, catch_table, ingested >>
    /\ UNCHANGED << seriesVars, callVars >>

Next ==
    \/ Setup
    \/ FetchCatchCount
    \/ PutRawToS3
    \/ PutDdbDaily
    \/ PutDdbCatches
    \/ Notify
    \/ Except

Spec ==
    Init /\ [][Next]_vars

\* the scheduled batch, day after day on the same tables
ReingestNext ==
    \/ ScheduledSetup
    \/ FetchCatchCount
    \/ PutRawToS3
    \/ PutDdbDaily
    \/ PutDdbCatches
    \/ Notify
    \/ Except

ReingestSpec ==
    Init /\ [][ReingestNext]_vars

(***************************************************************************)
(* app.py: handle_series.                                                  *)
(***************************************************************************)
\* the catch items that ingesting the post for the date puts
CatchItemsOf(post, d) ==
    LET fishes == normalize_fishes(post, FACILITY_DEFAULT, ymd_dash(d)).val
    IN  {CatchItem(fishes[i]) : i \in 1..Len(fishes)}

\* items the ingestion of the posts can have put, stale ones included: the
\* aji of every date and the iwashi of the first
CatchUniverse ==
    {it \in UNION {CatchItemsOf(post, d) : post \in {PostA, PostB}, d \in Dates} :
        it.c.fish = Aji \/ it.c.date = ymd_dash(1)}

\* the post whose ingestion wrote the date's summary last, given the catch
\* items in the table: the revision if any of its items is there
LastPostOf(table, d) ==
    IF table \cap CatchItemsOf(PostB, d) # {} THEN PostB ELSE PostA

\* the archive keys and the summaries that ingestion wrote with the catch items
ArchiveOf(table) ==
    {RawKey(FACILITY_DEFAULT, "catch_count", it.c.date) : it \in table}

SummariesOf(table) ==
    {DailyItem(normalize_catch_count(LastPostOf(table, strptime(it.c.date)),
                                     FACILITY_DEFAULT, it.c.date).val,
               {[kind |-> "catch_count",
                 key |-> RawKey(FACILITY_DEFAULT, "catch_count", it.c.date)]},
               <<>>) : it \in table}

\* the read API is called on tables that ingestion has filled
SeriesInit ==
    /\ FetcherInit
    /\ SeriesIdle
    /\ NoCall
    /\ catch_table \in {t \in SUBSET CatchUniverse : Cardinality(t) <= MaxItems}
    /\ s3 = ArchiveOf(catch_table)
    /\ daily_table = SummariesOf(catch_table)

\* values of the from and to parameters: absent, a date, garbage
QsDates ==
    {None, PyStr(<< "x" >>)} \cup {PyStr(ymd_dash(d)) : d \in Dates}

Resp(status, body) ==
    [t |-> "resp", statusCode |-> status, body |-> body]

\* lines 138-151: the key condition for the parsed window
KeyCondition(pk, date_from, date_to) ==
    IF date_from # None /\ date_to # None
    THEN [pk |-> pk, op |-> "between",
          lo |-> << "D", "A", "T", "E", "#" >> \o ymd_dash(date_from.v),
          hi |-> << "D", "A", "T", "E", "#" >> \o ymd_dash(date_to.v)]
    ELSE IF date_from # None
    THEN [pk |-> pk, op |-> "gte",
          lo |-> << "D", "A", "T", "E", "#" >> \o ymd_dash(date_from.v),
          hi |-> <<>>]
    ELSE [pk |-> pk, op |-> "eq", lo |-> <<>>, hi |-> <<>>]

\* DynamoDB's evaluation of Key("PK").eq(pk) & Key("SK").between / gte
Satisfies(it, cond) ==
    /\ it.PK = cond.pk
    /\ cond.op = "between" => StrLeq(cond.lo, it.SK) /\ StrLeq(it.SK, cond.hi)
    /\ cond.op = "gte" => StrLeq(cond.lo, it.SK)

\* lines 117-151: the parameters are read and the key condition is built
SeriesRequest ==
    /\ spc = "idle"
    /\ \E fish \in {None, Aji}, from_s \in QsDates, to_s \in QsDates :
        LET date_from == IF Truthy(from_s) THEN PyInt(strptime(from_s.v)) ELSE None
            date_to == IF Truthy(to_s) THEN PyInt(strptime(to_s.v)) ELSE None
            pk == make_catch_pk(FACILITY_DEFAULT, fish.v)
        IN  /\ qs' = [facility |-> None, fish |-> fish, from |-> from_s, to |-> to_s]
            /\ IF ~Truthy(fish)
               THEN /\ response' = Resp(400, "missing query param: fish")
                    /\ spc' = "done"
                    /\ UNCHANGED key_cond
               ELSE IF \E dt \in {date_from, date_to} : dt.t = "int" /\ dt.v = 0
               THEN /\ response' = Raise("ValueError")
                    /\ spc' = "done"
                    /\ UNCHANGED key_cond
               ELSE /\ key_cond' = KeyCondition(pk, date_from, date_to)
                    /\ spc' = "query"
                    /\ UNCHANGED response
    /\ items' = <<>>
    /\ last_evaluated_key' = None
    /\ UNCHANGED << arrived, empty_pages, pages, catch_table, fetcherVars, callVars >>

Perms(S) ==
    {f \in [1..Cardinality(S) -> S] : \A i, j \in 1..Cardinality(S) : i # j => f[i] # f[j]}

\* lines 170-177
extract_date(it) ==
    LET parts == Split(it.SK)
    IN  IF Len(parts) >= 2 THEN parts[2]
        ELSE << "0", "0", "0", "0", "-", "0", "0", "-", "0", "0" >>

\* items.sort(key=extract_date)
SortByDate(its) ==
    LET sorted == StableSort([i \in 1..Len(its) |-> [key |-> extract_date(its[i]), val |-> its[i]]])
    IN  [i \in 1..Len(its) |-> sorted[i].val]

\* lines 182-191
Out(its) ==
    [i \in 1..Len(its) |->
        [date |-> extract_date(its[i]),
         count |-> its[i].c.count,
         minSize |-> its[i].c.minSize,
         maxSize |-> its[i].c.maxSize,
         unit |-> its[i].c.unit,
         place |-> its[i].c.place]]

\* as SeriesQuery, but each page replaces the items of the pages before it
SeriesQuery_KeepsLastPage ==
    /\ spc = "query"
    /\ pages' = pages + 1
    /\ LET ExclusiveStartKey == last_evaluated_key
           left == IF ExclusiveStartKey = None
                   THEN {it \in catch_table : Satisfies(it, key_cond)}
                   ELSE ExclusiveStartKey.rest
       IN  \E page \in SUBSET left, more \in BOOLEAN :
            /\ left \ page # {} => more
            /\ (page = {} /\ more) => empty_pages < MaxEmptyPages
            /\ empty_pages' = IF page = {} /\ more THEN empty_pages + 1 ELSE empty_pages
            /\ \E order \in Perms(page) :
                LET r == [Items |-> order,
                          LastEvaluatedKey |-> IF more THEN [t |-> "key", rest |-> left \ page]
                                               ELSE None]
                    extended == r.Items
                IN  /\ arrived' = arrived \o r.Items
                    /\ last_evaluated_key' = r.LastEvaluatedKey
                    /\ IF r.LastEvaluatedKey # None
                       THEN /\ items' = extended
                            /\ UNCHANGED << spc, response >>
                       ELSE /\ items' = SortByDate(extended)
                            /\ response' = Resp(200, [facility |-> FACILITY_DEFAULT,
                                                      fish |-> qs.fish.v,
                                                      items |-> Out(items')])
                            /\ spc' = "done"
    /\ UNCHANGED << qs, key_cond, catch_table, fetcherVars, callVars >>

\* lines 157-197: one table.query; the store returns some of the records
\* that satisfy the condition and were not returned before, in any order,
\* and a LastEvaluatedKey whenever records remain; after the page without a
\* key the items are sorted and returned
SeriesQuery ==
    /\ spc = "query"
    /\ pages' = pages + 1
    /\ LET ExclusiveStartKey == last_evaluated_key
           left == IF ExclusiveStartKey = None
                   THEN {it \in catch_table : Satisfies(it, key_cond)}
                   ELSE ExclusiveStartKey.rest
       IN  \E page \in SUBSET left, more \in BOOLEAN :
            /\ left \ page # {} => more
            /\ (page = {} /\ more) => empty_pages < MaxEmptyPages
            /\ empty_pages' = IF page = {} /\ more THEN empty_pages + 1 ELSE empty_pages
            /\ \E order \in Perms(page) :
                LET r == [Items |-> order,
                          LastEvaluatedKey |-> IF more THEN [t |-> "key", rest |-> left \ page]
                                               ELSE None]
                    extended == items \o r.Items
                IN  /\ arrived' = arrived \o r.Items
                    /\ last_evaluated_key' = r.LastEvaluatedKey
                    /\ IF r.LastEvaluatedKey # None
                       THEN /\ items' = extended
                            /\ UNCHANGED << spc, response >>
                       ELSE /\ items' = SortByDate(extended)
                            /\ response' = Resp(200, [facility |-> FACILITY_DEFAULT,
                                                      fish |-> qs.fish.v,
                                                      items |-> Out(items')])
                            /\ spc' = "done"
    /\ UNCHANGED << qs, key_cond, catch_table, fetcherVars, callVars >>

SeriesNext ==
    \/ SeriesRequest
    \/ SeriesQuery

SeriesSpec ==
    SeriesInit /\ [][SeriesNext]_vars

\* one more pass of the loop "while True" of lines 157-167
LoopIteration ==
    spc = "query" /\ pages' = pages + 1

\* the loop is synchronous code: while the handler is in it, it goes on to
\* the next call of table.query
SeriesLoopSpec ==
    SeriesSpec /\ WF_pages(LoopIteration)

(***************************************************************************)
(* Calls of the pure functions, on arguments drawn from bounded sets.      *)
(***************************************************************************)
\* the call has not returned
Pending ==
    [t |-> "pending"]

\* the call returned v
Ret(v) ==
    [t |-> "ret", v |-> v]

FishSep ==
    << "#", "F", "I", "S", "H", "#" >>

\* (facility, fish, date, slot, place) tuples: the facility or the fish may
\* hold the text that separates them in the key; the place is absent, empty,
\* a string (with blanks or a newline around it), the sentinel's text, a list
KeyTuples ==
    [facility : {FACILITY_DEFAULT, FACILITY_DEFAULT \o FishSep \o Aji.v},
     fish : {Iwashi.v, Aji.v \o FishSep \o Iwashi.v},
     date : {ymd_dash(1), ymd_dash(MaxDay)},
     slot : {1, MaxSlot},
     place : {None, PyStr(<<>>), PlaceA, PyStr(<< " ", "A", "\n" >>),
              PyList(<< <<>>, << "A" >> >>)}]

\* the catch key of a tuple, as put_ddb_catches builds it
catch_key(k) ==
    [PK |-> make_catch_pk(k.facility, k.fish),
     SK |-> make_catch_sk(k.date, k.slot, k.place)]

\* arguments of safe_int: None, ints, floats, numeric and other strings, a
\* value of another type
Twelve ==
    << "1", "2" >>

SafeIntArgs ==
    {None, PyInt(0), PyInt(7), PyInt(0 - 7),
     PyFloat("num", 127), PyFloat("num", 0 - 35), PyFloat("inf", 0), PyFloat("nan", 0),
     PyStr(Twelve), PyStr(Twelve \o << ".", "7" >>), PyStr(<< "-", "3" >>),
     PyStr(<< " ", "7", "\n" >>), PyStr(<< "-", "0", ".", "5" >>),
     PyStr(<<>>), PyStr(<< " " >>), PyStr(<< "a", "b", "c" >>), PyStr(<< "1", ".", "2", ".", "3" >>),
     PyStr(<< "n", "a", "n" >>), PyStr(<< "i", "n", "f" >>), PyStr(<< "-", "i", "n", "f" >>),
     PyList(<<>>)}

\* what a slot of a post may hold: nothing, a fish, other fields without a
\* name or with an empty one, a fish whose count is the text "inf"
SlotValues ==
    {EmptySlot,
     FishSlot(Aji, PyStr(<< "3" >>), PlaceA),
     FishSlot(None, PyInt(4), PlaceA),
     FishSlot(PyStr(<<>>), PyStr(<< "5" >>), None),
     FishSlot(Iwashi, PyStr(<< "i", "n", "f" >>), None)}

FishPosts ==
    {Post(1, T1, PyStr(<< "h", "i" >>), PyInt(1), fish) : fish \in [1..MaxSlot -> SlotValues]}

\* the calls that are made
Calls ==
    {[fn |-> "catch_key", args |-> << a, b >>] : a \in KeyTuples, b \in KeyTuples}
        \cup {[fn |-> "safe_int", args |-> << v >>] : v \in SafeIntArgs}
        \cup {[fn |-> "normalize_fishes", args |-> << item, FACILITY_DEFAULT, ymd_dash(1) >>] :
                    item \in FishPosts}

FunctionsInit ==
    /\ FetcherInit
    /\ SeriesIdle
    /\ s3 = {}
    /\ daily_table = {}
    /\ catch_table = {}
    /\ \E c \in Calls : fn = c.fn /\ args = c.args
    /\ ret = Pending

\* the keys of two tuples are computed
CatchKeys ==
    /\ fn = "catch_key"
    /\ ret = Pending
    /\ ret' = Ret(<< catch_key(args[1]), catch_key(args[2]) >>)
    /\ UNCHANGED << fn, args, fetcherVars, catch_table, seriesVars >>

\* safe_int(v) returns or raises
SafeInt ==
    /\ fn = "safe_int"
    /\ ret = Pending
    /\ ret' = (LET r == safe_int(args[1]) IN IF r.t = "raise" THEN r ELSE Ret(r))
    /\ UNCHANGED << fn, args, fetcherVars, catch_table, seriesVars >>

\* normalize_fishes(item, facility, date_dash) returns or raises
NormalizeFishes ==
    /\ fn = "normalize_fishes"
    /\ ret = Pending
    /\ ret' = (LET r == normalize_fishes(args[1], args[2], args[3])
               IN  IF r.ok THEN Ret(r.val) ELSE Raise(r.err.type))
    /\ UNCHANGED << fn, args, fetcherVars, catch_table, seriesVars >>

FunctionsNext ==
    \/ CatchKeys
    \/ SafeInt
    \/ NormalizeFishes

FunctionsSpec ==
    FunctionsInit /\ [][FunctionsNext]_vars

(***************************************************************************)
(* Properties of the ingestion.                                            *)
(***************************************************************************)
Last(s) ==
    s[Len(s)]

\* how many entries of a list of results or errors carry the date
CountDate(list, date_dash) ==
    Cardinality({i \in 1..Len(list) : list[i].date = date_dash})

CountCalls(op, d) ==
    Cardinality({i \in 1..Len(calls) : calls[i].op = op /\ calls[i].date = d})

\* C1: in a run of lambda_handler over a range start..end, target_dates is
\* every date of the range in order, a failing date never ends the loop (the
\* notification is reached only after the last date), and each date already
\* passed was fetched exactly once and is in exactly one of results
\* (processed_dates) and errors, a date not yet reached in neither.
C1_EachDateOnceInOneList ==
    /\ date_range # None =>
        target_dates = [i \in 1..(date_range.end - date_range.start + 1) |->
                            date_range.start + i - 1]
    /\ pc \in {"fetch", "archive", "put_daily", "put_catches"} => idx <= Len(target_dates)
    /\ pc \in {"notify", "except", "done"} => idx = Len(target_dates) + 1
    /\ \A i \in 1..Len(target_dates) :
        LET d == target_dates[i]
            listed == CountDate(results, ymd_dash(d)) + CountDate(errors, ymd_dash(d))
        IN  IF i < idx THEN listed = 1 /\ CountCalls("fetch", d) = 1
            ELSE /\ listed = 0
                 /\ CountCalls("fetch", d) = IF i = idx /\ pc # "fetch" THEN 1 ELSE 0

\* a finished run over three dates whose first date failed and whose other
\* two dates succeeded
C1_Witness ==
    /\ pc = "done"
    /\ date_range # None
    /\ Len(target_dates) = 3
    /\ Len(errors) = 1 /\ errors[1].date = ymd_dash(target_dates[1])
    /\ Len(results) = 2 /\ results[2].date = ymd_dash(target_dates[3])

\* the date's unit ran to its end: the batch write of its catches succeeded
UnitSucceeded(d) ==
    \E i \in 1..Len(calls) : calls[i] = Call("batch_put", d, TRUE)

UnitFailed(d) ==
    ~UnitSucceeded(d)

\* C2: the returned result has status "ok" exactly when no date failed and
\* "partial" when one did; processed_dates is the successful dates in
\* chronological order, errors has one entry per failed date, in order.
C2_ResultStatus ==
    outcome.kind = "return" =>
        LET v == outcome.value
            good == SelectSeq(target_dates, UnitSucceeded)
            bad == SelectSeq(target_dates, UnitFailed)
        IN  /\ v.status = "ok" <=> bad = <<>>
            /\ v.status = "partial" <=> bad # <<>>
            /\ v.processed_dates = [i \in 1..Len(good) |-> ymd_dash(good[i])]
            /\ \A i \in 1..(Len(v.processed_dates) - 1) :
                    StrLess(v.processed_dates[i], v.processed_dates[i + 1])
            /\ IF bad = <<>> THEN v.errors = None
               ELSE /\ v.errors.t = "list"
                    /\ [i \in 1..Len(v.errors.v) |-> v.errors.v[i].date]
                            = [i \in 1..Len(bad) |-> ymd_dash(bad[i])]

\* 2024-01-01..2024-01-03 with day 2 failing validation
C2_Witness ==
    /\ outcome.kind = "return"
    /\ outcome.value.status = "partial"
    /\ outcome.value.processed_dates = << ymd_dash(1), ymd_dash(3) >>
    /\ outcome.value.errors.v[1].date = ymd_dash(2)
    /\ outcome.value.errors.v[1].error.msg = "Missing required fields in catch count"

ErrorsWith(msgs) ==
    {i \in 1..Len(errors) : errors[i].error.msg \in msgs}

\* a successful call of the operation for the date of the error entry
Performed(ops, date_dash) ==
    \E i \in 1..Len(calls) :
        calls[i].op \in ops /\ calls[i].ok /\ ymd_dash(calls[i].date) = date_dash

MissingOf(item) ==
    {k \in {"weather", "waterTemp", "tide", "visitors"} :
        item[k].t = "None" \/ (item[k].t = "str" /\ item[k].v = <<>>)}

\* C4: when the selected post lacks required fields, the step that
\* normalizes it (after a successful archive write) records a ValueError for
\* the date that names exactly the missing fields, each once, leaves both
\* tables unchanged and never goes on to the writes.
C4_MissingFieldsNotPersisted ==
    [][(/\ pc = "archive"
        /\ MissingOf(unit.item) # {}
        /\ Len(calls') = Len(calls) + 1
        /\ Last(calls').ok)
       => (/\ errors' = Append(errors, Last(errors'))
           /\ Last(errors').date = ymd_dash(target_date)
           /\ Last(errors').error.type = "ValueError"
           /\ Last(errors').error.msg = "Missing required fields in catch count"
           /\ {Last(errors').error.missing[k] : k \in 1..Len(Last(errors').error.missing)}
                = MissingOf(unit.item)
           /\ Len(Last(errors').error.missing) = Cardinality(MissingOf(unit.item))
           /\ daily_table' = daily_table
           /\ catch_table' = catch_table
           /\ pc' \notin {"put_daily", "put_catches"})]_vars

\* a post without tide (empty) and visitors (absent) was rejected
C4_Witness ==
    \E i \in 1..Len(errors) :
        /\ errors[i].error.missing = << "tide", "visitors" >>
        /\ daily_table = {}
        /\ catch_table = {}

ConfigMsgs ==
    {"Both START_DATE and END_DATE must be set together", "Invalid date format",
     "START_DATE must be before or equal to END_DATE"}

\* C6: after a bad date-range configuration no date is processed: the only
\* call to a collaborator is one send_email with the failure subject, the
\* archive and the tables are untouched, and the invocation ends by raising,
\* the configuration error itself when the mail went out.
C6_BadRangeAborts ==
    exc.msg \in ConfigMsgs =>
        /\ pc \in {"except", "done"}
        /\ target_dates = <<>> /\ results = <<>> /\ errors = <<>>
        /\ s3 = {} /\ daily_table = {} /\ catch_table = {}
        /\ \A i \in 1..Len(calls) : calls[i].op = "send_email"
        /\ pc = "except" => calls = <<>> /\ outcome = NoOutcome
        /\ pc = "done" =>
            /\ Len(calls) = 1
            /\ calls[1].subject = "[NG]"
            /\ outcome.kind = "raise"
            /\ calls[1].ok => outcome.err = exc

C6_Witness ==
    /\ pc = "done"
    /\ exc.msg = "START_DATE must be before or equal to END_DATE"
    /\ calls = << MailCall("[NG]", TRUE) >>
    /\ outcome = [kind |-> "raise", err |-> exc]

SetupErrors ==
    ConfigMsgs \cup {"Invalid TARGET_DATE format"}

\* C7 as stated: a failure of send_mail never masks the outcome: a run
\* whose setup succeeded returns its result and attempts no [NG] mail, and a
\* run whose setup failed raises the setup error.
C7_NotifierNeverMasks ==
    pc = "done" =>
        IF target_dates # <<>>
        THEN /\ outcome.kind = "return"
             /\ \A i \in 1..Len(calls) :
                    calls[i].op = "send_email" => calls[i].subject # "[NG]"
        ELSE /\ outcome.kind = "raise"
             /\ outcome.err.msg \in SetupErrors

(***************************************************************************)
(* Properties of repeated ingestion.                                       *)
(***************************************************************************)
UniqueKeys(table) ==
    \A a \in table, b \in table : (a.PK = b.PK /\ a.SK = b.SK) => a = b

\* C5: a unit that runs for a date with the upstream response of the date's
\* last complete ingestion changes neither table in any of its steps, and
\* no table ever holds two items with one key.
C5_Idempotent ==
    /\ [](UniqueKeys(daily_table) /\ UniqueKeys(catch_table))
    /\ [][(/\ pc \in {"put_daily", "put_catches"}
           /\ ingested[target_date] = PyList(unit.raw))
          => (daily_table' = daily_table /\ catch_table' = catch_table)]_vars

\* the date is being ingested again with the same response: its summary has
\* been put again and its catches are about to be
C5_Witness ==
    /\ pc = "put_catches"
    /\ ingested[target_date] = PyList(unit.raw)
    /\ unit.catches # <<>>
    /\ Len(calls) = 3

SameKey(a, b) ==
    a.PK = b.PK /\ a.SK = b.SK

\* the summaries stored for the date
SummariesAt(table, d) ==
    {it \in table : /\ it.PK = make_daily_pk(FACILITY_DEFAULT)
                    /\ it.SK = make_daily_sk(ymd_dash(d))}

\* C16: no step of the ingestion removes a key from the catch table or
\* from the daily table; a stored catch record stays as it is unless the
\* running unit puts a record at its key; the daily table holds at most
\* one summary per date, and after a unit has put the summary of its date it
\* is the one stored for the date, the summaries of other dates untouched.
C16_NeverDeletes ==
    /\ [][/\ \A it \in catch_table : \E n \in catch_table' : SameKey(n, it)
          /\ \A it \in daily_table : \E n \in daily_table' : SameKey(n, it)
          /\ \A it \in catch_table :
                \/ it \in catch_table'
                \/ \E i \in 1..Len(unit.catches) : SameKey(CatchItem(unit.catches[i]), it)]_vars
    /\ [](\A d \in Dates : Cardinality(SummariesAt(daily_table, d)) <= 1)
    /\ [][(pc = "put_daily" /\ pc' = "put_catches") =>
            /\ SummariesAt(daily_table', target_date)
                    = {DailyItem(unit.daily, unit.raw_keys, <<>>)}
            /\ \A d \in Dates \ {target_date} :
                    SummariesAt(daily_table', d) = SummariesAt(daily_table, d)]_vars

\* the first date was ingested from PostA and then from its revision PostB:
\* the aji record of PostA is still there, next to the records of PostB,
\* and the one summary of the date is that of PostB
C16_Witness ==
    /\ pc = "done"
    /\ CatchItemsOf(PostA, 1) \cup CatchItemsOf(PostB, 1) \subseteq catch_table
    /\ CatchItemsOf(PostA, 1) \cap CatchItemsOf(PostB, 1) = {}
    /\ \E it \in daily_table :
            SummariesAt(daily_table, 1) = {it} /\ it.daily.sourceId = PostB.id

\* C17: every catch record in the table has the summary of its date in
\* the daily table, and every call of the batch write for a date comes
\* after a successful put of the date's summary; a step in which the batch
\* write fails leaves the summary that the unit has put in the daily table,
\* appends the date to errors, leaves processed_dates alone and goes on to
\* the next date, if there is one.
C17_DailyBeforeCatches ==
    /\ [](\A it \in catch_table : SummariesAt(daily_table, strptime(it.c.date)) # {})
    /\ [](\A i \in 1..Len(calls) :
            calls[i].op = "batch_put" =>
                \E j \in 1..(i - 1) : calls[j] = Call("put_item", calls[i].date, TRUE))
    /\ [][(pc = "put_catches" /\ errors' # errors) =>
            /\ daily_table' = daily_table
            /\ SummariesAt(daily_table', target_date)
                    = {DailyItem(unit.daily, unit.raw_keys, <<>>)}
            /\ errors' = Append(errors, [date |-> ymd_dash(target_date),
                                         error |-> Last(errors').error])
            /\ Last(errors').error.msg = "dynamodb.batch_write_item"
            /\ results' = results
            /\ idx < Len(target_dates) =>
                    (pc' = "fetch" /\ target_dates[idx'] = target_dates[idx + 1])]_vars

\* the batch write of the first date failed with none of its records
\* written: its summary is stored, it is in errors, and the second date has
\* been processed
C17_Witness ==
    /\ Len(errors) = 1
    /\ errors[1].date = ymd_dash(1)
    /\ errors[1].error.msg = "dynamodb.batch_write_item"
    /\ SummariesAt(daily_table, 1) # {}
    /\ \A it \in catch_table : it.c.date # ymd_dash(1)
    /\ Len(results) = 1
    /\ results[1].date = ymd_dash(2)

\* the indices of the candidates with the greatest updatedAt, a missing or
\* empty one counting as the empty string
Greatest(posts) ==
    {i \in 1..Len(posts) :
        \A j \in 1..Len(posts) : StrLeq(UpdatedAtKey(posts[j]), UpdatedAtKey(posts[i]))}

\* C15: the post that a unit goes on with is the first, in the order of the
\* response, of the candidates with the greatest updatedAt; a unit goes on
\* only with a non-empty response, and a unit that does not go on after the
\* fetch has put its date in errors and left processed_dates alone.
C15_PicksLatest ==
    /\ [](pc \in {"archive", "put_daily", "put_catches"} =>
            /\ unit.raw # <<>>
            /\ \E i \in Greatest(unit.raw) :
                    /\ unit.item = unit.raw[i]
                    /\ \A j \in Greatest(unit.raw) : i <= j)
    /\ [][(pc = "fetch" /\ pc' # "archive") =>
            /\ errors' = Append(errors, [date |-> ymd_dash(target_date),
                                         error |-> Last(errors').error])
            /\ Last(errors').error.type = "RuntimeError"
            /\ Last(errors').error.msg \in {"No items returned",
                                             "AppSync request failed after retries"}
            /\ results' = results]_vars

\* after a date failed on an empty response, the response of the next date
\* holds two posts with one updatedAt, and the first is taken
C15_Witness ==
    /\ pc = "archive"
    /\ ErrorsWith({"No items returned"}) # {}
    /\ unit.raw = << PostD, PostA >>
    /\ unit.item = PostD

(***************************************************************************)
(* Properties of the series lookup.                                        *)
(***************************************************************************)
Answered ==
    spc = "done" /\ response.t = "resp" /\ response.statusCode = 200

\* the records of the requested (facility, fish) partition, by their own fields
Partition ==
    {it \in catch_table : it.c.facility = FACILITY_DEFAULT /\ it.c.fish = qs.fish}

\* the day of a record, from its date field
DayOf(it) ==
    strptime(it.c.date)

Returned ==
    {items[i] : i \in 1..Len(items)}

\* C8 as stated: with from and to given, from <= to, the answer holds every
\* record of the partition dated from <= d <= to, those dated on to included.
C8_ClosedWindowInclusive ==
    (/\ Answered
     /\ qs.from # None /\ qs.to # None
     /\ strptime(qs.from.v) <= strptime(qs.to.v))
    => \A it \in Partition :
            (strptime(qs.from.v) <= DayOf(it) /\ DayOf(it) <= strptime(qs.to.v))
                => it \in Returned

\* C9 as stated: with only to given no returned record is dated after to,
\* and with only from given none is dated before from.
C9_OpenWindowBounded ==
    /\ (Answered /\ qs.from = None /\ qs.to # None)
            => \A it \in Returned : DayOf(it) <= strptime(qs.to.v)
    /\ (Answered /\ qs.from # None /\ qs.to = None)
            => \A it \in Returned : DayOf(it) >= strptime(qs.from.v)

\* the dates of the records of a page or of the answer
DatesOf(list) ==
    [i \in 1..Len(list) |-> list[i].c.date]

\* C10: the items of the answer are in ascending date order, whatever the
\* order and the paging of the store: each item's date is <= the next
\* one's, and it is the date of the record at that position.
C10_AscendingDates ==
    Answered =>
        LET out == response.body.items
        IN  /\ \A i \in 1..(Len(out) - 1) : StrLeq(out[i].date, out[i + 1].date)
            /\ \A i \in 1..(Len(out) - 1) : DayOf(items[i]) <= DayOf(items[i + 1])
            /\ [i \in 1..Len(out) |-> out[i].date] = DatesOf(items)

\* the store returned 01-03, then 01-01, the answer is 01-01, 01-03
C10_Witness ==
    /\ Answered
    /\ DatesOf(arrived) = << ymd_dash(3), ymd_dash(1) >>
    /\ [i \in 1..Len(response.body.items) |-> response.body.items[i].date]
            = << ymd_dash(1), ymd_dash(3) >>

\* the records that satisfy the key condition of the request
Matching ==
    {it \in catch_table : Satisfies(it, key_cond)}

Occurrences(list, x) ==
    Cardinality({i \in 1..Len(list) : list[i] = x})

\* C11: while the loop runs, items holds the records of the pages so far, in
\* their order; the loop goes on exactly as long as the last page had a
\* token, and each page comes from the continuation of the page before; the
\* answer holds each record of each page once, which is each record the key
\* condition selects once; and the loop, once entered, ends.
C11_PagesUntilExhausted ==
    /\ [](spc = "query" => items = arrived)
    /\ [](Answered =>
            /\ last_evaluated_key = None
            /\ \A it \in catch_table : Occurrences(items, it) = Occurrences(arrived, it)
            /\ Returned = Matching
            /\ Len(items) = Cardinality(Matching))
    /\ [][spc = "query" =>
            /\ (spc' = "query") <=> (last_evaluated_key' # None)
            /\ last_evaluated_key # None =>
                    \A i \in (Len(arrived) + 1)..Len(arrived') :
                        arrived'[i] \in last_evaluated_key.rest]_vars
    /\ (spc = "query") ~> (spc = "done")

\* each record came in a page of its own, after a page that held only a
\* token
C11_Witness ==
    /\ Answered
    /\ pages = MaxItems + 1
    /\ empty_pages = 1
    /\ Len(items) = MaxItems

(***************************************************************************)
(* Properties of the pure functions.                                       *)
(***************************************************************************)
KeysReturned ==
    fn = "catch_key" /\ ret.t = "ret"

\* place sanitization gives the sentinel for the place
ToSentinel(place) ==
    make_catch_sk(ymd_dash(1), 1, place) = make_catch_sk(ymd_dash(1), 1, None)

\* C12 as stated: equal tuples get equal keys; two distinct tuples get the
\* same (PK, SK) only when they differ in the place alone and both places
\* are sanitized to the sentinel; distinct (facility, fish) pairs get
\* distinct partition keys.
C12_CatchKeyInjective ==
    KeysReturned =>
        /\ args[1] = args[2] => ret.v[1] = ret.v[2]
        /\ (args[1] # args[2] /\ ret.v[1] = ret.v[2]) =>
                /\ [args[1] EXCEPT !.place = None] = [args[2] EXCEPT !.place = None]
                /\ ToSentinel(args[1].place) /\ ToSentinel(args[2].place)
        /\ << args[1].facility, args[1].fish >> # << args[2].facility, args[2].fish >>
                => ret.v[1].PK # ret.v[2].PK

\* what the claim gives for a float or for the text of a decimal number:
\* the number without its fraction
Truncated(v) ==
    CASE v.t = "float" /\ v.v.tenths = 127 -> 12
      [] v.t = "float" /\ v.v.tenths = 0 - 35 -> 0 - 3
      [] v.t = "str" /\ v.v = Twelve -> 12
      [] v.t = "str" /\ v.v = Twelve \o << ".", "7" >> -> 12
      [] v.t = "str" /\ v.v = << "-", "3" >> -> 0 - 3
      [] v.t = "str" /\ v.v = << " ", "7", "\n" >> -> 7
      [] v.t = "str" /\ v.v = << "-", "0", ".", "5" >> -> 0

\* C13 as stated: safe_int raises for no input; None gives None, an int
\* itself, a float its truncation toward zero, the text of a number the
\* truncation of the number, an empty or unparsable string None.
C13_SafeIntNeverRaises ==
    (fn = "safe_int" /\ ret # Pending) =>
        LET v == args[1]
        IN  /\ ret.t = "ret"
            /\ v.t = "None" => ret.v = None
            /\ v.t = "int" => ret.v = v
            /\ (v.t = "float" /\ v.v.kind = "num") => ret.v = PyInt(Truncated(v))
            /\ (v.t = "str" /\ ParseFloat(Strip(v.v)).kind = "num")
                    => ret.v = PyInt(Truncated(v))
            /\ (v.t = "str" /\ v.v \in { <<>>, << "a", "b", "c" >> }) => ret.v = None

\* the slots of a post whose name is present and non-empty
Named(item) ==
    {i \in 1..MaxSlot : item.fish[i].Name.t = "str" /\ item.fish[i].Name.v # <<>>}

\* C14 as stated: normalize_fishes gives one record for each slot with a
\* name and none for another slot, whatever the slot holds; the record of
\* slot i carries slot = i and the slot's name, and the records are in
\* strictly increasing slot order.
C14_OneRecordPerNamedSlot ==
    (fn = "normalize_fishes" /\ ret # Pending) =>
        /\ ret.t = "ret"
        /\ {ret.v[k].slot : k \in 1..Len(ret.v)} = Named(args[1])
        /\ Len(ret.v) = Cardinality(Named(args[1]))
        /\ \A k \in 1..Len(ret.v) : ret.v[k].fish = args[1].fish[ret.v[k].slot].Name
        /\ \A k \in 1..(Len(ret.v) - 1) : ret.v[k].slot < ret.v[k + 1].slot

====
